---- MODULE Spec2Model ----
(***************************************************************************)
(* PDF2PNG: the interactive converter (PDF2PNG/app.py) and the batch       *)
(* driver (PDF2PNG/pdf_to_png.py).                                         *)
(*                                                                         *)
(* Streamlit runs the script of app.py from top to bottom once per user    *)
(* event of a browser session (upload, removal, DPI selection, button      *)
(* click, plain rerun).  One run is one step of the model: a run is taken  *)
(* to finish before the session's next event is handled.  The widgets'     *)
(* values (uploaded_file, dpi) and st.session_state live per session; the  *)
(* cache of perform_conversion (st.cache_data) lives per server process.   *)
(* st.session_state.clear() empties the keys the script stores; the        *)
(* widgets keep the values the browser holds.                              *)
(*                                                                         *)
(* The batch driver is one function run once per process; its statements   *)
(* are the steps LoadConfig .. Finish.  The rendering libraries are taken  *)
(* to be functions of the document and the DPI.                            *)
(*                                                                         *)
(* Spec          one browser session, nothing configured                   *)
(* SpecSessions  two browser sessions on one server process                *)
(* SpecBatch     one run of the batch driver, from every configuration     *)
(***************************************************************************)
EXTENDS Integers, Sequences, FiniteSets, TLC

(***************************************************************************)
(* Bounds of the model.                                                    *)
(***************************************************************************)
\* pages of the small documents
SmallPages == 2
\* uploads per behaviour (file ids are 1..MaxUploads)
MaxUploads == 2

(***************************************************************************)
(* Program constants.                                                      *)
(***************************************************************************)
MAX_SAFE_PAGES == 50
MAX_SAFE_DPI == 150
FALLBACK_PAGE_COUNT == 101
max_entries == 5
DEFAULT_DPI == 300
BATCH_DEFAULT_DPI == 300

dpi_options == <<150, 300, 600>>

DpiChoices == {dpi_options[i] : i \in DOMAIN dpi_options}

\* Python's None
None == [kind |-> "None"]

Sessions == {"s1", "s2"}

(***************************************************************************)
(* Documents.  The bytes of an uploaded file are modelled by what the two  *)
(* libraries make of them:                                                 *)
(*   readable  PyPDF2.PdfReader parses the bytes                           *)
(*   pages     the number of pages of the document                         *)
(*   fault     the step of the conversion that raises: "none", "decode"    *)
(*             (convert_from_bytes), "png" (image.save), "zip" (writestr)  *)
(*   faultDpi  the fault happens at every DPI >= faultDpi                  *)
(***************************************************************************)
Doc(r, p, f, fd) == [readable |-> r, pages |-> p, fault |-> f, faultDpi |-> fd]

\* the files on the user's disk: a name and the bytes
File(stem, bytes) == [name |-> [stem |-> stem, ext |-> ".pdf"], bytes |-> bytes]

SmallFile == File("small", Doc(TRUE, SmallPages, "none", 150))

LargeFile == File("large", Doc(TRUE, MAX_SAFE_PAGES + 1, "none", 150))

CorruptFile == File("corrupt", Doc(FALSE, SmallPages, "decode", 150))

PhotoFile == File("photo", Doc(TRUE, SmallPages, "png", 600))

Files ==
    {SmallFile, LargeFile, CorruptFile, PhotoFile,
     File("limit", Doc(TRUE, MAX_SAFE_PAGES, "none", 150)),
     File("scan", Doc(FALSE, SmallPages, "none", 150)),
     File("bulk", Doc(TRUE, SmallPages, "zip", 600))}

\* the files one user uploads from: any single file, or the small file
\* together with the large, the corrupt or the photo one
Libraries ==
    {{f} : f \in Files}
    \cup {{SmallFile, LargeFile}, {SmallFile, CorruptFile}, {SmallFile, PhotoFile}}

(***************************************************************************)
(* Python values.  A call either returns a value or raises.                *)
(***************************************************************************)
Return(v) == [raised |-> FALSE, value |-> v]

Raise(e) == [raised |-> TRUE, error |-> e]

List(items) == [kind |-> "list", items |-> items]

Bytes(content) == [kind |-> "bytes", content |-> content]

Str(text) == [kind |-> "str", text |-> text]

isinstance_list(v) == v.kind = "list"

\* f"{n:03d}": the decimal digits of n, zero-padded on the left to width 3
RECURSIVE Digits(_)
Digits(n) == IF n < 10 THEN <<n>> ELSE Digits(n \div 10) \o <<n % 10>>

Format03d(n) ==
    LET ds == Digits(n)
    IN  IF Len(ds) >= 3 THEN ds
        ELSE [k \in 1..(3 - Len(ds)) |-> 0] \o ds

(***************************************************************************)
(* The libraries the script calls.                                         *)
(***************************************************************************)
\* len(PyPDF2.PdfReader(io.BytesIO(pdf_bytes)).pages)
PdfReaderPages(pdf_bytes) ==
    IF pdf_bytes.readable THEN Return(pdf_bytes.pages)
    ELSE Raise("PdfReadError")

\* pdf2image.convert_from_bytes: one image per page, in page order
convert_from_bytes(pdf_bytes, dpi) ==
    IF pdf_bytes.fault = "decode" /\ dpi >= pdf_bytes.faultDpi
    THEN Raise("PDFPageCountError")
    ELSE Return([k \in 1..pdf_bytes.pages |->
                    [doc |-> pdf_bytes, page |-> k, dpi |-> dpi]])

Faulty(image, step) ==
    /\ image.doc.fault = step
    /\ image.dpi >= image.doc.faultDpi
    /\ image.page = image.doc.pages

\* image.save(img_buffer, format="PNG"); img_buffer.getvalue()
SavePng(image) ==
    IF Faulty(image, "png") THEN Raise("MemoryError")
    ELSE Return(Bytes([png |-> image]))

\* zf.writestr(name, img_bytes): the entries of the archive so far plus one
writestr(zf, name, img_bytes) ==
    IF Faulty(img_bytes.content.png, "zip") THEN Raise("zipfile.LargeZipFile")
    ELSE Return(Append(zf, [name |-> name, data |-> img_bytes]))

(***************************************************************************)
(* get_pdf_page_count (app.py 86-92)                                       *)
(***************************************************************************)
\* the probe falling back to no pages
get_pdf_page_count_zero(pdf_bytes) ==
    LET n == PdfReaderPages(pdf_bytes)
    IN  IF n.raised THEN Return(0) ELSE Return(n.value)

get_pdf_page_count(pdf_bytes) ==
    LET n == PdfReaderPages(pdf_bytes)
    IN  IF n.raised THEN Return(FALLBACK_PAGE_COUNT) ELSE Return(n.value)

(***************************************************************************)
(* perform_conversion (app.py 19-44), the function under st.cache_data.    *)
(***************************************************************************)
\* the entry named after the loop index, not the page number
ZipEntryName_index(i) == [prefix |-> "page_", number |-> Format03d(i), suffix |-> ".png"]

ZipEntryName(i) == [prefix |-> "page_", number |-> Format03d(i + 1), suffix |-> ".png"]

\* the for loop of lines 32-38 and the return of line 40.  Iteration k
\* (Python index k - 1) saves page k as PNG and writes it to the archive;
\* the loop raises what its first raising iteration raises.
ConversionLoop(images) ==
    LET n == Len(images)
        saved == [k \in 1..n |-> SavePng(images[k])]
        \* the archive after m iterations that did not raise
        zf(m) == [k \in 1..m |-> [name |-> ZipEntryName(k - 1), data |-> saved[k].value]]
        step(k) == IF saved[k].raised THEN saved[k]
                   ELSE writestr(zf(k - 1), ZipEntryName(k - 1), saved[k].value)
        raising == {k \in 1..n : step(k).raised}
    IN  IF raising # {}
        THEN step(CHOOSE k \in raising : \A j \in raising : k <= j)
        ELSE Return(<<List([k \in 1..n |-> saved[k].value]),
                      Bytes(IF n = 0 THEN <<>> ELSE step(n).value)>>)

\* the try block, lines 26-40
ConversionTry(pdf_bytes, dpi) ==
    LET images == convert_from_bytes(pdf_bytes, dpi)
    IN  IF images.raised THEN images ELSE ConversionLoop(images.value)

\* the body without its except clause
ConversionBody_propagates(pdf_bytes, dpi) == ConversionTry(pdf_bytes, dpi)

\* the body: try block and except clause, lines 25-44
ConversionBody(pdf_bytes, dpi) ==
    LET r == ConversionTry(pdf_bytes, dpi)
    IN  IF r.raised THEN Return(<<None, Str(r.error)>>) ELSE r

\* the cache without a limit
CacheStore_unbounded(cache, key, value) ==
    Append(cache, [key |-> key, value |-> value])

\* @st.cache_data(max_entries=5): the entries in the order they were stored;
\* a sixth entry takes the place of the oldest
CacheStore(cache, key, value) ==
    LET c == Append(cache, [key |-> key, value |-> value])
    IN  IF Len(c) > max_entries THEN Tail(c) ELSE c

\* the keys of the entries of the cache
Keys(cache) == {cache[j].key : j \in DOMAIN cache}

\* the results that are failures not stored in the cache
perform_conversion_success_only(cache, pdf_bytes, dpi) ==
    LET key == <<pdf_bytes, dpi>>
        hits == {j \in DOMAIN cache : cache[j].key = key}
    IN  IF hits # {}
        THEN [result |-> Return(cache[CHOOSE j \in hits : TRUE].value),
              cache |-> cache, executed |-> FALSE, evicted |-> {}]
        ELSE LET r == ConversionBody(pdf_bytes, dpi)
                 stored == IF r.raised \/ r.value[1] = None THEN cache
                           ELSE CacheStore(cache, key, r.value)
             IN  [result |-> r, cache |-> stored, executed |-> TRUE,
                  evicted |-> Keys(cache) \ Keys(stored)]

\* the cache looked up by the DPI alone
perform_conversion_by_dpi(cache, pdf_bytes, dpi) ==
    LET key == <<pdf_bytes, dpi>>
        hits == {j \in DOMAIN cache : cache[j].key[2] = dpi}
    IN  IF hits # {}
        THEN [result |-> Return(cache[CHOOSE j \in hits : TRUE].value),
              cache |-> cache, executed |-> FALSE, evicted |-> {}]
        ELSE LET r == ConversionBody(pdf_bytes, dpi)
                 stored == IF r.raised THEN cache ELSE CacheStore(cache, key, r.value)
             IN  [result |-> r, cache |-> stored, executed |-> TRUE,
                  evicted |-> Keys(cache) \ Keys(stored)]

\* a call of the decorated function: the result, the cache after the call,
\* whether the body was executed, and the keys of the entries the call made
\* the cache drop
perform_conversion(cache, pdf_bytes, dpi) ==
    LET key == <<pdf_bytes, dpi>>
        hits == {j \in DOMAIN cache : cache[j].key = key}
    IN  IF hits # {}
        THEN [result |-> Return(cache[CHOOSE j \in hits : TRUE].value),
              cache |-> cache, executed |-> FALSE, evicted |-> {}]
        ELSE LET r == ConversionBody(pdf_bytes, dpi)
                 stored == IF r.raised THEN cache ELSE CacheStore(cache, key, r.value)
             IN  [result |-> r, cache |-> stored, executed |-> TRUE,
                  evicted |-> Keys(cache) \ Keys(stored)]

(***************************************************************************)
(* The state.                                                              *)
(*   uploaded_file  per session: the file uploader's value (None or a file)*)
(*   dpi            per session: the selectbox's value                     *)
(*   session_state  per session: st.session_state, a map from the keys set *)
(*   memo           the cache of perform_conversion (one per process)      *)
(*   ui             per session: what the last run of the script drew      *)
(*   locals         per session: page_count and dpi_safe as the last run   *)
(*                  of the script computed them (None without a file)      *)
(*   last_render    per session: the file id and DPI of the latest call of *)
(*                  perform_conversion and whether it gave a list; None    *)
(*                  before the first call                                  *)
(*   download       per session: the file the browser was handed by the    *)
(*                  last download click of the page                        *)
(*   event          the last step: its session and what the user did       *)
(*   called         the calls of perform_conversion the last step made,    *)
(*                  each with its arguments, its outcome, whether the body *)
(*                  was executed and the cache keys it evicted             *)
(*   next_file_id   the id the next uploaded file gets                     *)
(*   library        the files the users upload from                        *)
(*   env            the configuration (.env and environment): the values  *)
(*                  of PDF_FILE_PATH and OUTPUT_DPI, None when not set     *)
(*   disk           the file system the batch driver works on              *)
(*   batch          the run of pdf_to_png.py: its position and its locals  *)
(*   stdout         what the batch driver has printed                      *)
(***************************************************************************)
VARIABLES uploaded_file, dpi, session_state, memo, ui, locals, last_render,
          download, event, called, next_file_id, library

VARIABLES env, disk, batch, stdout

\* the state of the interactive converter
app_vars == <<uploaded_file, dpi, session_state, memo, ui, locals, last_render,
              download, event, called, next_file_id, library>>

\* the state of the batch driver
batch_vars == <<disk, batch, stdout>>

vars == <<uploaded_file, dpi, session_state, memo, ui, locals, last_render,
          download, event, called, next_file_id, library,
          env, disk, batch, stdout>>

\* st.session_state
EmptyState == <<>>

Has(ss, key) == key \in DOMAIN ss

Put(ss, key, value) == (key :> value) @@ ss

\* the page before anything is drawn
BlankPage ==
    [info |-> FALSE, warning |-> {}, spinner |-> {}, success |-> {},
     error |-> {}, exception |-> {}, zip_button |-> {}, cells |-> <<>>,
     dialog |-> {}]

\* the policy with the page limit off by one
dpi_safe_from_limit(page_count, d) ==
    IF page_count >= MAX_SAFE_PAGES /\ d > MAX_SAFE_DPI THEN MAX_SAFE_DPI ELSE d

\* lines 105-113: the DPI the conversion is run at
dpi_safe(page_count, d) ==
    IF page_count > MAX_SAFE_PAGES /\ d > MAX_SAFE_DPI THEN MAX_SAFE_DPI ELSE d

\* the warning shown for every large document, whatever the requested DPI
Warning_when_large(page_count, d) ==
    IF page_count > MAX_SAFE_PAGES
    THEN {[page_count |-> page_count, reduced_from |-> d, reduced_to |-> MAX_SAFE_DPI]}
    ELSE {}

\* lines 106-110: st.warning
Warning(page_count, d) ==
    IF page_count > MAX_SAFE_PAGES /\ d > MAX_SAFE_DPI
    THEN {[page_count |-> page_count, reduced_from |-> d, reduced_to |-> MAX_SAFE_DPI]}
    ELSE {}

\* the condition of the conversion without the DPI
MustConvert_file_only(ss, file_id, dpi_used) ==
    \/ ~Has(ss, "last_file_id")
    \/ ss["last_file_id"] # file_id

\* the condition of the conversion left out: every run converts
MustConvert_always(ss, file_id, dpi_used) == TRUE

\* lines 117-119: the condition of the conversion
MustConvert(ss, file_id, dpi_used) ==
    \/ ~Has(ss, "last_file_id")
    \/ ss["last_file_id"] # file_id
    \/ ss["last_dpi"] # dpi_used

\* the results stored without the id of the file they belong to
StoreResult_no_file_id(ss, result, file_id, dpi_used, pdf_filename) ==
    Put(Put(Put(Put(ss, "image_bytes_list", result[1]),
                    "zip_data", result[2]),
                "last_dpi", dpi_used),
        "pdf_filename", pdf_filename)

\* lines 125-129
StoreResult(ss, result, file_id, dpi_used, pdf_filename) ==
    Put(Put(Put(Put(Put(ss, "image_bytes_list", result[1]),
                        "zip_data", result[2]),
                    "last_file_id", file_id),
                "last_dpi", dpi_used),
        "pdf_filename", pdf_filename)

\* the failure reported and its result left in the session state
AfterOutcome_keeps(ss) == ss

\* the failure reported and only the two results removed
AfterOutcome_partial(ss) ==
    IF isinstance_list(ss["image_bytes_list"]) THEN ss
    ELSE [k \in DOMAIN ss \ {"image_bytes_list", "zip_data"} |-> ss[k]]

\* lines 131-135: the state after the outcome of the conversion is reported
AfterOutcome(ss) ==
    IF isinstance_list(ss["image_bytes_list"]) THEN ss ELSE EmptyState

\* line 138
HasResults(ss) ==
    Has(ss, "image_bytes_list") /\ isinstance_list(ss["image_bytes_list"])

\* lines 144-151
ZipButton(ss) ==
    [data |-> ss["zip_data"],
     file_name |-> [stem |-> ss["pdf_filename"], suffix |-> "_all_pages.zip"]]

\* lines 157-185: one cell per page
Cell(ss, i) ==
    LET img_bytes == ss["image_bytes_list"].items[i + 1]
    IN  [image |-> img_bytes,
         caption |-> i + 1,
         enlarge |-> i,
         data |-> img_bytes,
         file_name |-> [stem |-> ss["pdf_filename"], infix |-> "_page_",
                        number |-> Format03d(i + 1), suffix |-> ".png"]]

\* lines 138-185: the results drawn from the session state; click is the set
\* of the indexes of the Enlarge buttons pressed (none or one)
Display(page, ss, click) ==
    IF ~HasResults(ss) THEN page
    ELSE LET n == Len(ss["image_bytes_list"].items)
         IN  [page EXCEPT
                !.zip_button = {ZipButton(ss)},
                !.cells = [k \in 1..n |-> Cell(ss, k - 1)],
                !.dialog = {[image_bytes |-> ss["image_bytes_list"].items[i + 1],
                             page_num |-> i + 1] : i \in click \cap 0..(n - 1)}]

\* the script without an uploaded file, the session state left as it is
ScriptEmpty_keeps(ss, ch, lr) ==
    [session_state |-> ss,
     memo |-> ch,
     ui |-> [BlankPage EXCEPT !.info = TRUE],
     locals |-> None,
     called |-> {},
     last_render |-> lr]

\* lines 186-189: the script without an uploaded file
ScriptEmpty(ss, ch, lr) ==
    [session_state |-> IF Has(ss, "last_file_id") THEN EmptyState ELSE ss,
     memo |-> ch,
     ui |-> [BlankPage EXCEPT !.info = TRUE],
     locals |-> None,
     called |-> {},
     last_render |-> lr]

\* lines 121-185: the conversion is called, conv is what the call gave
ScriptConverted(uf, dpi_used, click, ss, page, conv) ==
    LET call == [pdf_bytes |-> uf.bytes, dpi |-> dpi_used,
                 executed |-> conv.executed, outcome |-> conv.result,
                 evicted |-> conv.evicted]
        spin == [page EXCEPT !.spinner = {[name |-> uf.name, dpi |-> dpi_used]}]
    IN  IF conv.result.raised
        THEN [session_state |-> ss, memo |-> conv.cache,
              ui |-> [spin EXCEPT !.exception = {conv.result.error}],
              called |-> {call},
              last_render |-> [file_id |-> uf.file_id, dpi |-> dpi_used, ok |-> FALSE]]
        ELSE LET result == conv.result.value
                 ss2 == AfterOutcome(
                            StoreResult(ss, result, uf.file_id, dpi_used, uf.name.stem))
                 told == IF isinstance_list(result[1])
                         THEN [spin EXCEPT !.success = {Len(result[1].items)}]
                         ELSE [spin EXCEPT !.error = {result[2]}]
             IN  [session_state |-> ss2, memo |-> conv.cache,
                  ui |-> Display(told, ss2, click),
                  called |-> {call},
                  last_render |-> [file_id |-> uf.file_id, dpi |-> dpi_used,
                                   ok |-> isinstance_list(result[1])]]

\* lines 115-185, from the conversion condition on
ScriptConvert(uf, dpi_used, click, ss, ch, lr, page) ==
    IF ~MustConvert(ss, uf.file_id, dpi_used)
    THEN [session_state |-> ss, memo |-> ch,
          ui |-> Display(page, ss, click),
          called |-> {}, last_render |-> lr]
    ELSE ScriptConverted(uf, dpi_used, click, ss, page,
             perform_conversion(ch, uf.bytes, dpi_used))

\* the script with the policy's DPI computed but the requested one used
ScriptProbed_requested(uf, d, click, ss, ch, lr, page_count) ==
    [locals |-> [page_count |-> page_count, dpi_safe |-> dpi_safe(page_count, d)]]
    @@ ScriptConvert(uf, d, click, ss, ch, lr,
           [BlankPage EXCEPT !.warning = Warning(page_count, d)])

\* lines 99-185, the page count known
ScriptProbed(uf, d, click, ss, ch, lr, page_count) ==
    LET dpi_used == dpi_safe(page_count, d)
    IN  [locals |-> [page_count |-> page_count, dpi_safe |-> dpi_used]]
        @@ ScriptConvert(uf, dpi_used, click, ss, ch, lr,
               [BlankPage EXCEPT !.warning = Warning(page_count, d)])

\* lines 94-185: the script with an uploaded file
ScriptLoaded(uf, d, click, ss, ch, lr) ==
    LET page_count == get_pdf_page_count(uf.bytes)
    IN  IF page_count.raised
        THEN [session_state |-> ss, memo |-> ch,
              ui |-> [BlankPage EXCEPT !.exception = {page_count.error}],
              locals |-> None, called |-> {}, last_render |-> lr]
        ELSE ScriptProbed(uf, d, click, ss, ch, lr, page_count.value)

\* one run of the script, top to bottom
Script(uf, d, click, ss, ch, lr) ==
    IF uf = None THEN ScriptEmpty(ss, ch, lr)
    ELSE ScriptLoaded(uf, d, click, ss, ch, lr)

\* session s reruns the script with the widget values uf and d
Run(s, kind, uf, d, click) ==
    \E r \in {Script(uf, d, click, session_state[s], memo, last_render[s])} :
        /\ uploaded_file' = [uploaded_file EXCEPT ![s] = uf]
        /\ dpi' = [dpi EXCEPT ![s] = d]
        /\ session_state' = [session_state EXCEPT ![s] = r.session_state]
        /\ memo' = r.memo
        /\ ui' = [ui EXCEPT ![s] = r.ui]
        /\ locals' = [locals EXCEPT ![s] = r.locals]
        /\ last_render' = [last_render EXCEPT ![s] = r.last_render]
        /\ download' = [download EXCEPT ![s] = {}]
        /\ event' = [session |-> s, kind |-> kind]
        /\ called' = r.called
        /\ UNCHANGED <<env, batch_vars>>

(***************************************************************************)
(* The events of a session.                                                *)
(***************************************************************************)
(***************************************************************************)
(* The configuration.  A value of the environment is None (not set) or a   *)
(* string, given by its characters.                                        *)
(***************************************************************************)
Chars(cs) == [kind |-> "str", chars |-> cs]

PyInt(n) == [kind |-> "int", value |-> n]

\* os.getenv(name, default)
getenv(e, name, default) == IF e[name] = None THEN default ELSE e[name]

DigitChars == <<"0", "1", "2", "3", "4", "5", "6", "7", "8", "9">>

IsDigit(c) == \E k \in DOMAIN DigitChars : DigitChars[k] = c

DigitOf(c) == (CHOOSE k \in DOMAIN DigitChars : DigitChars[k] = c) - 1

\* the number a string of decimal digits denotes
RECURSIVE Decimal(_)
Decimal(cs) ==
    IF cs = <<>> THEN 0
    ELSE 10 * Decimal(SubSeq(cs, 1, Len(cs) - 1)) + DigitOf(cs[Len(cs)])

\* str.strip() of blanks
RECURSIVE lstrip(_)
lstrip(cs) == IF cs # <<>> /\ cs[1] = " " THEN lstrip(Tail(cs)) ELSE cs

RECURSIVE rstrip(_)
rstrip(cs) ==
    IF cs # <<>> /\ cs[Len(cs)] = " " THEN rstrip(SubSeq(cs, 1, Len(cs) - 1)) ELSE cs

\* int(x) of Python: an int as it is; a string with blanks around an optional
\* sign and decimal digits gives the number, any other string ValueError
\* (underscores between digits are not modelled)
int(x) ==
    IF x.kind = "int" THEN Return(x.value)
    ELSE LET cs == rstrip(lstrip(x.chars))
             signed == cs # <<>> /\ cs[1] \in {"+", "-"}
             ds == IF signed THEN Tail(cs) ELSE cs
         IN  IF ds = <<>> \/ \E k \in DOMAIN ds : ~IsDigit(ds[k])
             THEN Raise("ValueError")
             ELSE Return(IF signed /\ cs[1] = "-" THEN 0 - Decimal(ds) ELSE Decimal(ds))

\* dpi_options.index(x)
index(x) ==
    IF \E i \in DOMAIN dpi_options : dpi_options[i] = x
    THEN Return((CHOOSE i \in DOMAIN dpi_options : dpi_options[i] = x) - 1)
    ELSE Raise("ValueError")

\* app.py 66-70: the index of the selectbox's default
default_index(e) ==
    LET default_dpi == int(getenv(e, "OUTPUT_DPI", PyInt(DEFAULT_DPI)))
        found == IF default_dpi.raised THEN default_dpi ELSE index(default_dpi.value)
    IN  IF found.raised THEN 1 ELSE found.value


(***************************************************************************)
(* The batch driver, convert_pdf_to_high_quality_images (pdf_to_png.py).   *)
(*                                                                         *)
(* The file system: files is the set of the files outside the output       *)
(* directories, each a path and its bytes; tree maps every existing        *)
(* output directory to its content, a map from file names to bytes;        *)
(* writable says whether the process may create directories and files.     *)
(***************************************************************************)
Path(dir, name) == [dir |-> dir, name |-> name]

\* os.path.exists(path)
exists(d, path) == \E f \in d.files : f.path = path

\* os.path.splitext(os.path.basename(pdf_path))[0]
FilenameStem(pdf_path) == pdf_path.name.stem

\* os.path.join(os.path.dirname(__file__), "output_images", pdf_filename)
OutputDir(pdf_filename) == [root |-> "output_images", name |-> pdf_filename]

\* the directory taken for created
makedirs_skipped(d, output_dir) == Return(d)

\* os.makedirs(output_dir, exist_ok=True): the file system after the call
makedirs(d, output_dir) ==
    IF output_dir \in DOMAIN d.tree THEN Return(d)
    ELSE IF ~d.writable THEN Raise("PermissionError")
    ELSE Return([d EXCEPT !.tree = (output_dir :> <<>>) @@ d.tree])

\* pdf2image.convert_from_path: the images of the file at the path
convert_from_path(d, pdf_path, dots) ==
    convert_from_bytes((CHOOSE f \in d.files : f.path = pdf_path).bytes, dots)

\* the page's file named after the loop index, not the page number
ImageName_index(pdf_filename, i) ==
    [stem |-> pdf_filename, infix |-> "_page_", number |-> Format03d(i),
     suffix |-> ".png"]

\* line 55: f"{pdf_filename}_page_{i + 1:03d}.png"
ImageName(pdf_filename, i) ==
    [stem |-> pdf_filename, infix |-> "_page_", number |-> Format03d(i + 1),
     suffix |-> ".png"]

\* image.save(output_path, 'PNG'): the file system after the call; a file of
\* that name is overwritten
save(d, image, output_dir, image_name) ==
    LET png == SavePng(image)
    IN  IF png.raised THEN png
        ELSE IF ~d.writable THEN Raise("PermissionError")
        ELSE IF output_dir \notin DOMAIN d.tree THEN Raise("FileNotFoundError")
        ELSE Return([d EXCEPT !.tree[output_dir] = (image_name :> png.value) @@ @])

\* print(...)
print(out, line) == Append(out, line)

\* the driver before its first statement: pc is its position, saved the
\* names of the files this run has written; dpi, pdf_filename and images
\* have no value before they are assigned (0, "" and <<>> stand for that)
BatchStart ==
    [pc |-> "start", pdf_path |-> None, dpi |-> 0, pdf_filename |-> "",
     output_dir |-> None, images |-> <<>>, i |-> 0, saved |-> {}, error |-> None]

\* lines 12-17: the configuration is read; the exception int() raises is
\* caught nowhere and ends the process
LoadConfig ==
    /\ batch.pc = "start"
    /\ LET pdf_path == getenv(env, "PDF_FILE_PATH", None)
           d == int(getenv(env, "OUTPUT_DPI", PyInt(BATCH_DEFAULT_DPI)))
       IN  batch' = IF d.raised
                    THEN [batch EXCEPT !.pc = "raised", !.pdf_path = pdf_path,
                                       !.error = Str(d.error)]
                    ELSE [batch EXCEPT !.pc = "validate", !.pdf_path = pdf_path,
                                       !.dpi = d.value]
    /\ UNCHANGED <<disk, stdout, env, app_vars>>

\* line 20: not pdf_path or not os.path.exists(pdf_path)
PathMissing(d, pdf_path) ==
    pdf_path = None \/ pdf_path = Chars(<<>>) \/ ~exists(d, pdf_path)

\* lines 20-30: the path is validated and the output paths are defined
ValidatePath ==
    /\ batch.pc = "validate"
    /\ IF PathMissing(disk, batch.pdf_path)
       THEN /\ stdout' = print(print(stdout,
                             [msg |-> "Error: PDF file not found at path",
                              pdf_path |-> batch.pdf_path]),
                             [msg |-> "Please check your PDF_FILE_PATH"])
            /\ batch' = [batch EXCEPT !.pc = "returned"]
       ELSE /\ stdout' = stdout
            /\ batch' = [batch EXCEPT
                           !.pc = "makedirs",
                           !.pdf_filename = FilenameStem(batch.pdf_path),
                           !.output_dir = OutputDir(FilenameStem(batch.pdf_path))]
    /\ UNCHANGED <<disk, env, app_vars>>

\* lines 33-40: the output directory is created
MakeOutputDir ==
    /\ batch.pc = "makedirs"
    /\ \E r \in {makedirs(disk, batch.output_dir)} :
          IF r.raised
          THEN /\ disk' = disk
               /\ stdout' = print(stdout, [msg |-> "Error creating directory",
                                           e |-> Str(r.error)])
               /\ batch' = [batch EXCEPT !.pc = "returned"]
          ELSE /\ disk' = r.value
               /\ stdout' = print(print(stdout,
                                [msg |-> "Output directory created",
                                 output_dir |-> batch.output_dir]),
                                [msg |-> "Starting conversion",
                                 pdf_filename |-> batch.pdf_filename,
                                 dpi |-> batch.dpi])
               /\ batch' = [batch EXCEPT !.pc = "convert"]
    /\ UNCHANGED <<env, app_vars>>

\* the files this run wrote removed again
ConversionError_rollback(d, b, out, e) ==
    [disk |-> [d EXCEPT !.tree[b.output_dir] =
                  [n \in DOMAIN @ \ b.saved |-> @[n]]],
     batch |-> [b EXCEPT !.pc = "returned", !.saved = {}],
     stdout |-> print(print(print(out,
                    [msg |-> "A conversion error occurred."]),
                    [msg |-> "This is often caused by Poppler"]),
                    [msg |-> "Error details", e |-> Str(e)])]

\* lines 64-67: the except clause of the conversion
ConversionError(d, b, out, e) ==
    [disk |-> d,
     batch |-> [b EXCEPT !.pc = "returned"],
     stdout |-> print(print(print(out,
                    [msg |-> "A conversion error occurred."]),
                    [msg |-> "This is often caused by Poppler"]),
                    [msg |-> "Error details", e |-> Str(e)])]

\* lines 45-50: the rasterization of all pages
Convert ==
    /\ batch.pc = "convert"
    /\ \E r \in {convert_from_path(disk, batch.pdf_path, batch.dpi)} :
          IF r.raised
          THEN \E x \in {ConversionError(disk, batch, stdout, r.error)} :
                  disk' = x.disk /\ batch' = x.batch /\ stdout' = x.stdout
          ELSE /\ batch' = [batch EXCEPT !.pc = "save", !.images = r.value, !.i = 0]
               /\ UNCHANGED <<disk, stdout>>
    /\ UNCHANGED <<env, app_vars>>

\* lines 53-60: one iteration of the loop, for the image of index batch.i
SavePage ==
    /\ batch.pc = "save"
    /\ batch.i < Len(batch.images)
    /\ LET image_name == ImageName(batch.pdf_filename, batch.i)
       IN  \E r \in {save(disk, batch.images[batch.i + 1], batch.output_dir,
                          image_name)} :
              IF r.raised
              THEN \E x \in {ConversionError(disk, batch, stdout, r.error)} :
                      disk' = x.disk /\ batch' = x.batch /\ stdout' = x.stdout
              ELSE /\ disk' = r.value
                   /\ stdout' = print(stdout, [msg |-> "Saved page",
                                               page |-> batch.i + 1,
                                               image_name |-> image_name])
                   /\ batch' = [batch EXCEPT !.i = @ + 1,
                                             !.saved = @ \cup {image_name}]
    /\ UNCHANGED <<env, app_vars>>

\* line 62: the loop is over
Finish ==
    /\ batch.pc = "save"
    /\ batch.i = Len(batch.images)
    /\ stdout' = print(stdout, [msg |-> "Conversion successful!",
                                count |-> Len(batch.images),
                                output_dir |-> batch.output_dir])
    /\ batch' = [batch EXCEPT !.pc = "returned"]
    /\ UNCHANGED <<disk, env, app_vars>>

BatchNext ==
    \/ LoadConfig
    \/ ValidatePath
    \/ MakeOutputDir
    \/ Convert
    \/ SavePage
    \/ Finish

\* the file system of a machine that runs only the interactive converter
NoDisk == [files |-> {}, tree |-> <<>>, writable |-> TRUE]

\* the configuration with nothing set
NoEnv == [PDF_FILE_PATH |-> None, OUTPUT_DPI |-> None]

\* the browsers open the page: the first run of the script
Opened ==
    /\ uploaded_file = [s \in Sessions |-> None]
    /\ dpi = [s \in Sessions |-> dpi_options[default_index(env) + 1]]
    /\ session_state = [s \in Sessions |-> EmptyState]
    /\ memo = <<>>
    /\ ui = [s \in Sessions |-> [BlankPage EXCEPT !.info = TRUE]]
    /\ locals = [s \in Sessions |-> None]
    /\ last_render = [s \in Sessions |-> None]
    /\ download = [s \in Sessions |-> {}]
    /\ event = [session |-> "all", kind |-> "open"]
    /\ called = {}
    /\ next_file_id = 1

\* the interactive converter on a machine with nothing configured
Init ==
    /\ env = NoEnv
    /\ disk = NoDisk
    /\ batch = BatchStart
    /\ stdout = <<>>
    /\ Opened
    /\ library \in Libraries

\* the user picks a file in the uploader (the first, or one replacing the
\* current one); every upload gets a fresh file_id
Upload(s) ==
    /\ next_file_id <= MaxUploads
    /\ \E f \in library :
          Run(s, "upload",
              [file_id |-> next_file_id, name |-> f.name, bytes |-> f.bytes],
              dpi[s], {})
    /\ next_file_id' = next_file_id + 1
    /\ UNCHANGED library

\* the user removes the file from the uploader
Remove(s) ==
    /\ uploaded_file[s] # None
    /\ Run(s, "remove", None, dpi[s], {})
    /\ UNCHANGED <<next_file_id, library>>

\* the user selects another DPI
SelectDpi(s) ==
    /\ \E d \in DpiChoices \ {dpi[s]} :
          Run(s, "dpi", uploaded_file[s], d, {})
    /\ UNCHANGED <<next_file_id, library>>

\* the cells whose buttons the user presses: the first and the last
Pressed(cells) == {k \in DOMAIN cells : k = 1 \/ k = Len(cells)}

\* the user presses an Enlarge button of the page
Enlarge(s) ==
    /\ \E k \in Pressed(ui[s].cells) :
          Run(s, "enlarge", uploaded_file[s], dpi[s], {ui[s].cells[k].enlarge})
    /\ UNCHANGED <<next_file_id, library>>

\* lines 53-54: the user presses Close in the dialog; st.rerun()
CloseDialog(s) ==
    /\ ui[s].dialog # {}
    /\ Run(s, "close", uploaded_file[s], dpi[s], {})
    /\ UNCHANGED <<next_file_id, library>>

\* the user reruns the app with nothing changed
Rerun(s) ==
    /\ Run(s, "rerun", uploaded_file[s], dpi[s], {})
    /\ UNCHANGED <<next_file_id, library>>

\* a download click: the browser is handed the button's data; on_click="ignore",
\* the script is not run
Hand(s, kind, file) ==
    /\ download' = [download EXCEPT ![s] = {file}]
    /\ event' = [session |-> s, kind |-> kind]
    /\ called' = {}
    /\ UNCHANGED <<uploaded_file, dpi, session_state, memo, ui, locals,
                   last_render, next_file_id, library>>
    /\ UNCHANGED <<env, batch_vars>>

\* lines 176-184: a page's Download button
DownloadPage(s) ==
    \E k \in Pressed(ui[s].cells) :
        Hand(s, "download",
             [data |-> ui[s].cells[k].data, file_name |-> ui[s].cells[k].file_name])

\* lines 144-151: the ZIP button
DownloadZip(s) ==
    \E b \in ui[s].zip_button : Hand(s, "download_zip", b)

SessionNext(s) ==
    \/ Upload(s)
    \/ Remove(s)
    \/ SelectDpi(s)
    \/ Enlarge(s)
    \/ CloseDialog(s)
    \/ Rerun(s)
    \/ DownloadPage(s)
    \/ DownloadZip(s)

\* one browser session
Next == SessionNext("s1")

Spec == Init /\ [][Next]_vars

(***************************************************************************)
(* Two browser sessions on one server process: the sessions share the      *)
(* cache of perform_conversion and nothing else.                           *)
(***************************************************************************)
\* the events of a session that rerun the script with its widgets' values
SessionEvents(s) ==
    \/ Upload(s)
    \/ Remove(s)
    \/ SelectDpi(s)
    \/ Rerun(s)

InitSessions ==
    /\ env = NoEnv
    /\ disk = NoDisk
    /\ batch = BatchStart
    /\ stdout = <<>>
    /\ Opened
    /\ library = {SmallFile, CorruptFile}

NextSessions == \E s \in Sessions : SessionEvents(s)

SpecSessions == InitSessions /\ [][NextSessions]_vars

(***************************************************************************)
(* One run of the batch driver, from every configuration.                  *)
(***************************************************************************)
\* the documents on the disk
DiskFiles == {[path |-> Path("docs", f.name), bytes |-> f.bytes] : f \in Files}

\* the values of PDF_FILE_PATH: not set, empty, the path of no file, the
\* paths of the documents
PathValues ==
    {None, Chars(<<>>), Path("docs", [stem |-> "ghost", ext |-> ".pdf"])}
    \cup {f.path : f \in DiskFiles}

\* the values of OUTPUT_DPI: not set, numbers, and strings int() rejects
OutputDpiValues ==
    {None,
     Chars(<<"1", "5", "0">>), Chars(<<"3", "0", "0">>), Chars(<<"6", "0", "0">>),
     Chars(<<"7", "2">>), Chars(<<" ", "6", "0", "0">>),
     Chars(<<>>), Chars(<<"h", "i", "g", "h">>), Chars(<<"3", "0", "0", ".", "0">>)}

\* what an earlier run of the driver left in the output directory of a
\* document that had nine pages then: its first and its last page at 72 DPI
EarlierRun(pdf_filename) ==
    [n \in {ImageName(pdf_filename, 0), ImageName(pdf_filename, 8)} |->
        Bytes([png |-> [doc |-> Doc(TRUE, 9, "none", 150),
                        page |-> IF n = ImageName(pdf_filename, 0) THEN 1 ELSE 9,
                        dpi |-> 72]])]

\* the output directories before the run: none, or the one of the document
Trees(pdf_path) ==
    IF pdf_path = None \/ pdf_path = Chars(<<>>) THEN {<<>>}
    ELSE {<<>>,
          OutputDir(FilenameStem(pdf_path)) :> EarlierRun(FilenameStem(pdf_path))}

InitBatch ==
    /\ env \in [PDF_FILE_PATH : PathValues, OUTPUT_DPI : OutputDpiValues]
    /\ disk \in {[files |-> DiskFiles, tree |-> t, writable |-> w] :
                     t \in Trees(env.PDF_FILE_PATH), w \in BOOLEAN}
    /\ batch = BatchStart
    /\ stdout = <<>>
    /\ Opened
    /\ library = {SmallFile}

SpecBatch == InitBatch /\ [][BatchNext]_vars

(***************************************************************************)
(* Properties.                                                             *)
(***************************************************************************)
\* the sessions whose last run of the script had a file uploaded
Loaded(s) == uploaded_file[s] # None

\* C1: for every page count p and requested DPI d in {150, 300, 600} the
\* effective DPI the script computes is 150 when p > 50 and d > 150, and d
\* otherwise.
C1_EffectiveDpi ==
    \A s \in Sessions :
        Loaded(s) =>
            /\ locals[s] # None
            /\ dpi[s] \in {150, 300, 600}
            /\ locals[s].page_count >= 0
            /\ locals[s].dpi_safe =
                   IF locals[s].page_count > 50 /\ dpi[s] > 150 THEN 150 ELSE dpi[s]

\* a run that capped 600 to 150, with a run at the limit of 50 pages possible
C1_Witness ==
    /\ Loaded("s1")
    /\ locals["s1"].page_count = 51
    /\ dpi["s1"] = 600
    /\ locals["s1"].dpi_safe = 150

\* C2: every call of perform_conversion is made with the bytes of the file
\* uploaded in the calling session and with the DPI the safety policy gives
\* for that file's probed page count and the selected DPI; no document whose
\* probed page count exceeds 50 is rendered above 150 DPI.
C2_RenderAtSafeDpi ==
    \A c \in called :
        LET s == event.session
        IN  /\ Loaded(s)
            /\ c.pdf_bytes = uploaded_file[s].bytes
            /\ c.dpi = IF locals[s].page_count > 50 /\ dpi[s] > 150
                       THEN 150 ELSE dpi[s]
            /\ locals[s].page_count > 50 => c.dpi <= 150

\* a document of more than 50 pages requested at 600 DPI, rendered at 150
C2_Witness ==
    \E c \in called :
        /\ c.pdf_bytes.pages > 50
        /\ dpi[event.session] = 600
        /\ c.dpi = 150

\* the pair (document identity, effective DPI) of a call c made by session s
\* equals the pair of the render lr
SamePair(lr, file, c) == lr.file_id = file.file_id /\ lr.dpi = c.dpi

\* C3 as claimed: a step calls the render pipeline only if the pair (document
\* identity, effective DPI) differs from the pair of the last render performed
\* in the session.
C3_Original ==
    [][\A c \in called' :
          LET s == event'.session
          IN  \/ last_render[s] = None
              \/ ~SamePair(last_render[s], uploaded_file'[s], c)]_vars

\* C3, amended: a step calls the render pipeline only if the pair (document
\* identity, effective DPI) differs from the pair of the last render performed
\* in the session, or that last render failed; so after a successful render
\* a change of the requested DPI that leaves the effective DPI causes no call.
C3_RenderOnlyOnChange ==
    [][\A c \in called' :
          LET s == event'.session
          IN  \/ last_render[s] = None
              \/ ~last_render[s].ok
              \/ ~SamePair(last_render[s], uploaded_file'[s], c)]_vars

\* the requested DPI was changed, the effective DPI was not, nothing was called
C3_Witness ==
    /\ event.kind = "dpi"
    /\ Loaded(event.session)
    /\ locals[event.session].dpi_safe # dpi[event.session]
    /\ last_render[event.session] # None
    /\ last_render[event.session].ok
    /\ last_render[event.session].dpi = locals[event.session].dpi_safe
    /\ called = {}

\* the keys the script stores in st.session_state
CachedKeys == {"image_bytes_list", "zip_data", "last_file_id", "last_dpi", "pdf_filename"}

\* the page shows results: previews and download buttons
Ready(s) == HasResults(session_state[s]) /\ ui[s].cells # <<>> /\ ui[s].zip_button # {}

\* C4: an enlarge, close, page download or ZIP download step, which leaves
\* the uploaded file and the selected DPI as they are, is taken in Ready,
\* calls perform_conversion not at all and leaves the session's cached state
\* (page images, ZIP bytes, last file id, last DPI, filename stem) unchanged.
C4_ViewingKeepsCache ==
    [][event'.kind \in {"enlarge", "close", "download", "download_zip"} =>
          LET s == event'.session
          IN  /\ Ready(s)
              /\ uploaded_file'[s] = uploaded_file[s]
              /\ dpi'[s] = dpi[s]
              /\ called' = {}
              /\ memo' = memo
              /\ DOMAIN session_state'[s] = CachedKeys
              /\ session_state'[s] = session_state[s]]_vars

\* a page was enlarged, downloaded and the dialog closed, the results kept
C4_Witness ==
    /\ event.kind = "close"
    /\ Ready(event.session)
    /\ called = {}
    /\ last_render[event.session].ok

\* the controller's state Empty: no document, nothing cached, the prompt shown
Empty(s) ==
    /\ uploaded_file[s] = None
    /\ DOMAIN session_state[s] \cap CachedKeys = {}
    /\ ui[s] = [BlankPage EXCEPT !.info = TRUE]

\* C5: the removal of the uploaded file, from whatever state, leaves the
\* session Empty (none of the cached keys held, the upload prompt and nothing
\* else shown), and an upload made in Empty calls the render pipeline with the
\* new file's bytes.
C5_RemovalEmpties ==
    [][\A s \in Sessions :
          s = event'.session =>
              /\ event'.kind = "remove" => Empty(s)' /\ called' = {}
              /\ (event'.kind = "upload" /\ Empty(s)) =>
                     \E c \in called' : c.pdf_bytes = uploaded_file'[s].bytes]_vars

\* the file was removed while its results were shown
C5_Witness ==
    /\ event.kind = "remove"
    /\ Empty(event.session)
    /\ last_render[event.session] # None
    /\ last_render[event.session].ok

\* what the run that made call c in session s left when c gave a failure:
\* the message shown, nothing cached, no previews, buttons or dialog
FailureShown(s, c) ==
    /\ c.outcome.value[2].kind = "str"
    /\ ui[s].error = {c.outcome.value[2]}
    /\ ui[s].success = {}
    /\ DOMAIN session_state[s] \cap CachedKeys = {}
    /\ ui[s].cells = <<>>
    /\ ui[s].zip_button = {}
    /\ ui[s].dialog = {}

\* what the run that made call c in session s left when c gave a list: the
\* results stored under the five keys and shown
SuccessStored(s, c) ==
    /\ Ready(s)
    /\ DOMAIN session_state[s] = CachedKeys
    /\ session_state[s]["image_bytes_list"] = c.outcome.value[1]
    /\ session_state[s]["zip_data"] = c.outcome.value[2]
    /\ session_state[s]["last_file_id"] = uploaded_file[s].file_id
    /\ session_state[s]["last_dpi"] = c.dpi
    /\ session_state[s]["pdf_filename"] = uploaded_file[s].name.stem
    /\ ui[s].success = {Len(c.outcome.value[1].items)}
    /\ ui[s].error = {}

ErrorText(step) ==
    CASE step = "decode" -> "PDFPageCountError"
      [] step = "png" -> "MemoryError"
      [] step = "zip" -> "zipfile.LargeZipFile"

\* the conversion of these bytes at this DPI meets a failing step
Fails(pdf_bytes, d) == pdf_bytes.fault # "none" /\ d >= pdf_bytes.faultDpi

\* C7: no call of perform_conversion propagates an exception; a failure of
\* the decoding, of the PNG encoding or of the ZIP writing is returned as
\* (None, the error text); every result is either a list of page images with
\* ZIP bytes or None with a message, never a mix.
C7_FailureIsAValue ==
    \A c \in called :
        /\ ~c.outcome.raised
        /\ ui[event.session].exception = {}
        /\ \/ c.outcome.value[1].kind = "list" /\ c.outcome.value[2].kind = "bytes"
           \/ c.outcome.value[1] = None /\ c.outcome.value[2].kind = "str"
        /\ Fails(c.pdf_bytes, c.dpi) <=> c.outcome.value[1] = None
        /\ Fails(c.pdf_bytes, c.dpi) =>
               c.outcome.value[2] = Str(ErrorText(c.pdf_bytes.fault))

\* the ZIP writing failed and the call returned None and the message
C7_Witness ==
    \E c \in called :
        /\ c.pdf_bytes.fault = "zip"
        /\ c.executed
        /\ ~c.outcome.raised
        /\ c.outcome.value = <<None, Str("zipfile.LargeZipFile")>>

\* the PNG bytes of page k of a document rendered at DPI d
PagePng(pdf_bytes, k, d) == Bytes([png |-> [doc |-> pdf_bytes, page |-> k, dpi |-> d]])

\* page_NNN.png for a page number below 1000: three decimal digits
PageEntryName(k) ==
    [prefix |-> "page_", number |-> <<k \div 100, (k \div 10) % 10, k % 10>>,
     suffix |-> ".png"]

\* C8: a successful result for an N-page document has exactly N page images,
\* the k-th the PNG of page k, and an archive of exactly N entries, the k-th
\* named page_001.png .. page_NNN.png (1-based, zero-padded to 3 digits) and
\* holding the bytes of the k-th page image.
C8_PagesAndArchive ==
    \A c \in called :
        (~c.outcome.raised /\ c.outcome.value[1].kind = "list") =>
            LET N == c.pdf_bytes.pages
                pages == c.outcome.value[1].items
                archive == c.outcome.value[2].content
            IN  /\ Len(pages) = N
                /\ Len(archive) = N
                /\ \A k \in 1..N :
                      /\ pages[k] = PagePng(c.pdf_bytes, k, c.dpi)
                      /\ archive[k].name = PageEntryName(k)
                      /\ archive[k].data = pages[k]

\* a 51-page document was rendered: the last entry is page_051.png
C8_Witness ==
    \E c \in called :
        /\ c.executed
        /\ c.outcome.value[1].kind = "list"
        /\ Len(c.outcome.value[2].content) = 51
        /\ c.outcome.value[2].content[51].name.number = <<0, 5, 1>>

\* C9: after every run with a document loaded the page shows a warning
\* naming the page count, the requested DPI and the applied DPI 150 if the
\* policy lowered the requested DPI (also when the run rendered nothing), and
\* no warning if the effective DPI is the requested one.
C9_WarningIffDowngraded ==
    \A s \in Sessions :
        Loaded(s) =>
            ui[s].warning =
                IF locals[s].dpi_safe # dpi[s]
                THEN {[page_count |-> locals[s].page_count,
                       reduced_from |-> dpi[s],
                       reduced_to |-> 150]}
                ELSE {}

\* a rerun that rendered nothing and shows the warning
C9_Witness ==
    /\ event.kind = "rerun"
    /\ Loaded(event.session)
    /\ called = {}
    /\ ui[event.session].warning # {}
    /\ Ready(event.session)

\* C10: the page-count probe never fails: for bytes PyPDF2 cannot parse it
\* gives 101, so that every requested DPI above 150 is capped to 150; for
\* bytes it can parse it gives the document's page count, which is not
\* negative.
C10_ProbeFallback ==
    \A s \in Sessions :
        Loaded(s) =>
            /\ ui[s].exception = {}
            /\ locals[s] # None
            /\ locals[s].page_count >= 0
            /\ locals[s].page_count =
                   IF uploaded_file[s].bytes.readable
                   THEN uploaded_file[s].bytes.pages ELSE 101
            /\ (~uploaded_file[s].bytes.readable /\ dpi[s] > 150) =>
                   /\ locals[s].dpi_safe = 150
                   /\ s = event.session => \A c \in called : c.dpi = 150

\* bytes PyPDF2 cannot parse, requested at 600 DPI, rendered at 150
C10_Witness ==
    \E c \in called :
        /\ ~c.pdf_bytes.readable
        /\ dpi[event.session] = 600
        /\ locals[event.session].page_count = 101
        /\ c.dpi = 150
        /\ c.outcome.value[1].kind = "list"

\* the run of the batch driver is over: the function returned or raised
BatchOver == batch.pc \in {"returned", "raised"}

\* the lines the batch driver printed with this message
Printed(msg) == {k \in DOMAIN stdout : stdout[k].msg = msg}

\* the configured path is not set or names no file
PathUnusable ==
    \/ env.PDF_FILE_PATH = None
    \/ ~\E f \in disk.files : f.path = env.PDF_FILE_PATH

\* C11 as claimed: when the configured PDF path is not set or names no file,
\* whatever OUTPUT_DPI is, no step of the batch driver creates a directory or
\* writes a file, the process does not crash, and the run that is over has
\* printed the error.
C11_Original ==
    [][PathUnusable =>
          /\ disk' = disk
          /\ batch'.pc # "raised"
          /\ batch'.pc = "returned" =>
                 /\ Printed("Error: PDF file not found at path")' # {}
                 /\ Printed("Starting conversion")' = {}]_vars

\* the integer a value of OUTPUT_DPI is, if it is one (the values tried)
IntegerOf(v) ==
    CASE v = Chars(<<"1", "5", "0">>) -> {150}
      [] v = Chars(<<"3", "0", "0">>) -> {300}
      [] v = Chars(<<"6", "0", "0">>) -> {600}
      [] v = Chars(<<" ", "6", "0", "0">>) -> {600}
      [] v = Chars(<<"7", "2">>) -> {72}
      [] OTHER -> {}

\* C12 as claimed: in both modes the default DPI is the value of OUTPUT_DPI
\* and 300 when that value is not set or invalid (not an integer; for the
\* selectbox also: none of 150, 300, 600), and no value of OUTPUT_DPI makes
\* the script or the batch driver fail.
C12_Original ==
    /\ \A s \in Sessions :
          event.kind = "open" =>
              /\ \A n \in IntegerOf(env.OUTPUT_DPI) :
                    dpi[s] = IF n \in {150, 300, 600} THEN n ELSE 300
              /\ IntegerOf(env.OUTPUT_DPI) = {} => dpi[s] = 300
              /\ ui[s].exception = {}
    /\ batch.pc # "raised"
    /\ batch.pc \notin {"start", "raised"} =>
          /\ \A n \in IntegerOf(env.OUTPUT_DPI) : batch.dpi = n
          /\ IntegerOf(env.OUTPUT_DPI) = {} => batch.dpi = 300

\* the document the batch driver is pointed at, its filename stem, its
\* output directory and the DPI configured (OUTPUT_DPI not set: 300)
BatchDoc == (CHOOSE f \in disk.files : f.path = env.PDF_FILE_PATH).bytes

BatchStem == env.PDF_FILE_PATH.name.stem

BatchDir == [root |-> "output_images", name |-> BatchStem]

ConfiguredDpi ==
    IF env.OUTPUT_DPI = None THEN 300
    ELSE CHOOSE n \in IntegerOf(env.OUTPUT_DPI) : TRUE

\* {stem}_page_NNN.png for a page number below 1000
PageFileName(stem, k) ==
    [stem |-> stem, infix |-> "_page_",
     number |-> <<k \div 100, (k \div 10) % 10, k % 10>>, suffix |-> ".png"]

\* the run got as far as the conversion
Started == Printed("Starting conversion") # {}

\* where the conversion of the batch run fails: {0} the rasterization, {k}
\* the saving of page k, {} nowhere
FailsAt ==
    IF BatchDoc.fault = "decode" /\ ConfiguredDpi >= BatchDoc.faultDpi THEN {0}
    ELSE IF ~disk.writable THEN {1}
    ELSE IF BatchDoc.fault = "png" /\ ConfiguredDpi >= BatchDoc.faultDpi
    THEN {BatchDoc.pages}
    ELSE {}

\* pages 1..n of the document are files of the output directory
PagesOnDisk(n) ==
    \A k \in 1..n :
        /\ PageFileName(BatchStem, k) \in DOMAIN disk.tree[BatchDir]
        /\ disk.tree[BatchDir][PageFileName(BatchStem, k)] =
               PagePng(BatchDoc, k, ConfiguredDpi)

\* the run that failed while converting is over: it returned, its last lines
\* are the diagnostic, and the pages saved before the failure are on disk
Aborted ==
    (BatchOver /\ Started /\ FailsAt # {}) =>
        /\ batch.pc = "returned"
        /\ Printed("Conversion successful!") = {}
        /\ Printed("A conversion error occurred.") = {Len(stdout) - 2}
        /\ stdout[Len(stdout)].msg = "Error details"
        /\ stdout[Len(stdout)].e.kind = "str"
        /\ \A k \in FailsAt : k >= 1 => PagesOnDisk(k - 1)

\* no step removes a directory or a file
NothingDeleted ==
    \A od \in DOMAIN disk.tree :
        /\ od \in DOMAIN disk'.tree
        /\ DOMAIN disk.tree[od] \subseteq DOMAIN disk'.tree[od]

\* C13: a failure of the rasterization or of the saving of a page ends the
\* run of the batch driver with the printed diagnostic; the failing step and
\* every other step delete nothing, so every page file written before stays
\* on disk; and the function returns normally, as it does after a success.
C13_NoRollback ==
    [][/\ NothingDeleted
       /\ (batch.pc \in {"convert", "save"} /\ batch'.pc = "returned"
           /\ Printed("Conversion successful!")' = {}) =>
              disk' = disk /\ batch'.saved = batch.saved
       /\ (Started /\ BatchOver)' => batch'.pc = "returned"
       /\ Aborted']_vars

\* the saving of the last page failed and the pages before it are on disk
C13_Witness ==
    /\ BatchOver
    /\ Started
    /\ Printed("Error details") # {}
    /\ batch.saved # {}
    /\ FailsAt = {BatchDoc.pages}
    /\ PagesOnDisk(BatchDoc.pages - 1)

\* the run of the batch driver meets no failure
Succeeds ==
    /\ ~PathUnusable
    /\ env.OUTPUT_DPI = None \/ IntegerOf(env.OUTPUT_DPI) # {}
    /\ disk.writable
    /\ FailsAt = {}

\* C14: a run of the batch driver on an existing N-page document that meets
\* no failure leaves the output directory named after the filename stem,
\* converts at the configured DPI whatever N is, writes exactly the N files
\* {stem}_page_001.png .. {stem}_page_NNN.png, page k in file k, in page
\* order, and prints one line per page and at the end the count N.
C14_BatchSuccess ==
    (BatchOver /\ Succeeds) =>
        LET N == BatchDoc.pages
        IN  /\ batch.pc = "returned"
            /\ BatchDir \in DOMAIN disk.tree
            /\ batch.dpi = ConfiguredDpi
            /\ PagesOnDisk(N)
            /\ batch.saved = {PageFileName(BatchStem, k) : k \in 1..N}
            /\ DOMAIN disk.tree[BatchDir] \subseteq
                   batch.saved \cup DOMAIN EarlierRun(BatchStem)
            /\ Len(stdout) = N + 3
            /\ stdout[1] = [msg |-> "Output directory created", output_dir |-> BatchDir]
            /\ stdout[2] = [msg |-> "Starting conversion", pdf_filename |-> BatchStem,
                            dpi |-> ConfiguredDpi]
            /\ \A k \in 1..N :
                  stdout[k + 2] = [msg |-> "Saved page", page |-> k,
                                   image_name |-> PageFileName(BatchStem, k)]
            /\ stdout[N + 3] = [msg |-> "Conversion successful!", count |-> N,
                                output_dir |-> BatchDir]

\* 51 pages were converted at 600 DPI into a directory that was not there
C14_Witness ==
    /\ BatchOver
    /\ Succeeds
    /\ BatchDoc.pages = 51
    /\ batch.dpi = 600
    /\ DOMAIN disk.tree[BatchDir] = {PageFileName(BatchStem, k) : k \in 1..51}
    /\ Printed("Conversion successful!") # {}

\* C19: the batch driver creates the output directory before it rasterizes,
\* and only then; it writes a page file only after the rasterization has
\* returned the images of all pages; a run the rasterization fails leaves the
\* output directory as it was or new and empty, with no page written by the
\* run; a run the saving of page k fails leaves the pages 1..k-1 written.
C19_WriteAfterRasterization ==
    [][/\ DOMAIN disk'.tree # DOMAIN disk.tree =>
              batch.pc = "makedirs" /\ disk'.tree[batch.output_dir] = <<>>
       /\ batch.pc \in {"convert", "save"} => batch.output_dir \in DOMAIN disk.tree
       /\ batch.pc \in {"start", "validate", "makedirs", "convert"} => batch.saved = {}
       /\ (DOMAIN disk'.tree = DOMAIN disk.tree /\ disk'.tree # disk.tree) =>
              /\ batch.pc = "save"
              /\ Len(batch.images) = BatchDoc.pages
       /\ (batch.pc = "convert" /\ batch'.pc = "returned") =>
              /\ disk' = disk
              /\ batch'.saved = {}
              /\ FailsAt = {0}
       /\ (batch.pc = "save" /\ batch'.pc = "returned"
           /\ Printed("Conversion successful!")' = {}) =>
              /\ FailsAt = {batch.i + 1}
              /\ batch'.saved = {PageFileName(BatchStem, k) : k \in 1..batch.i}
              /\ disk' = disk
              /\ PagesOnDisk(batch.i)]_vars

\* the rasterization failed: the directory is new and empty
C19_Witness ==
    /\ batch.pc = "returned"
    /\ Started
    /\ FailsAt = {0}
    /\ batch.images = <<>>
    /\ batch.saved = {}
    /\ disk.tree[batch.output_dir] = <<>>
    /\ Printed("Error details") # {}

\* what session s holds, shows and offers: its widgets' values, its session
\* state, its page with the previews and download buttons, its last download
View(s) == <<uploaded_file[s], dpi[s], session_state[s], ui[s], download[s]>>

\* C15: with two sessions on one server process, a step of one session
\* leaves the widgets, the session state, the page and the downloads of the
\* other session as they are; and what the stepping session then holds and
\* shows is what its own file, DPI and session state give on a server no
\* other session has used (an empty cache): the shared cache carries nothing
\* from one session to another.
C15_SessionsIsolated ==
    [][\A s \in Sessions :
          IF s # event'.session
          THEN View(s)' = View(s)
          ELSE LET alone == Script(uploaded_file'[s], dpi'[s], {},
                                   session_state[s], <<>>, last_render[s])
               IN  /\ session_state'[s] = alone.session_state
                   /\ ui'[s] = alone.ui
                   /\ download'[s] = {}]_vars

\* both sessions hold the same document and the upload of the second was
\* answered from the cache entry the first session's render had stored
C15_Witness ==
    /\ event.kind = "upload"
    /\ \A s \in Sessions : Loaded(s)
    /\ uploaded_file["s1"].bytes = uploaded_file["s2"].bytes
    /\ \E c \in called : ~c.executed /\ c.outcome.value[1].kind = "list"
    /\ Ready(event.session)

\* C16: the cache of perform_conversion is keyed by (document bytes, DPI):
\* a call whose key is in the cache does not execute the body and returns
\* the value stored by the call that did; a call whose key is not in the
\* cache stores its result as the newest entry; the cache never holds more
\* than 5 entries or two entries of one key, and when a sixth entry is added
\* the oldest entry, and only that, is dropped.
C16_Memoized ==
    [][/\ Len(memo') <= 5
       /\ \A j, k \in DOMAIN memo' : memo'[j].key = memo'[k].key => j = k
       /\ called' = {} => memo' = memo
       /\ \A c \in called' :
             LET key == <<c.pdf_bytes, c.dpi>>
                 hit == {j \in DOMAIN memo : memo[j].key = key}
             IN  IF hit # {}
                 THEN /\ ~c.executed
                      /\ \A j \in hit : c.outcome.value = memo[j].value
                      /\ memo' = memo
                      /\ c.evicted = {}
                 ELSE /\ c.executed
                      /\ memo' = (IF Len(memo) = 5 THEN Tail(memo) ELSE memo)
                                 \o <<[key |-> key, value |-> c.outcome.value]>>
                      /\ c.evicted = IF Len(memo) = 5 THEN {memo[1].key} ELSE {}]_vars

\* a sixth result was stored and the oldest entry was dropped
C16_Witness ==
    /\ Len(memo) = 5
    /\ \E c \in called :
          /\ c.executed
          /\ c.evicted # {}
          /\ memo[5].key = <<c.pdf_bytes, c.dpi>>
          /\ \A j \in DOMAIN memo : memo[j].key \notin c.evicted

\* the failure c is shown in session s
FailureTold(s, c) == ui[s].error = {c.outcome.value[2]} /\ ui[s].cells = <<>>

\* C18: a failure is memoized like a success: a call of perform_conversion
\* that returns (None, message) from the body leaves that value in the cache
\* under its key (bytes, dpi), and every later call with that key, while the
\* entry is in the cache, returns the same (None, message) without executing
\* the body, so that the retry shows the same failure.
C18_FailureMemoized ==
    [][\A c \in called' :
          LET key == <<c.pdf_bytes, c.dpi>>
              failed == {j \in DOMAIN memo :
                            memo[j].key = key /\ memo[j].value[1] = None}
          IN  /\ (c.executed /\ c.outcome.value[1] = None) =>
                     \E j \in DOMAIN memo' :
                         memo'[j] = [key |-> key, value |-> c.outcome.value]
              /\ failed # {} =>
                     /\ ~c.executed
                     /\ \A j \in failed : c.outcome.value = memo[j].value
                     /\ c.outcome.value[1] = None
                     /\ c.outcome.value[2].kind = "str"
                     /\ FailureTold(event.session, c)']_vars

\* the same document was retried at the same DPI after its failure
C18_Witness ==
    /\ event.kind = "rerun"
    /\ Loaded(event.session)
    /\ last_render[event.session] # None
    /\ ~last_render[event.session].ok
    /\ \E c \in called :
          /\ ~c.executed
          /\ c.outcome.value[1] = None
          /\ FailureTold(event.session, c)

\* the page of session s shows previews or download buttons
Displays(s) == ui[s].cells # <<>> \/ ui[s].zip_button # {} \/ ui[s].dialog # {}

\* C17: whenever the page of a session shows previews and download buttons,
\* a document is loaded and the page images shown and offered, the entries
\* of the ZIP offered and the filename stem of the downloads are those of the
\* render of the currently uploaded file at the current effective DPI (150
\* for more than 50 probed pages and a selected DPI above 150, else the
\* selected DPI): nothing of a previous document or a previous effective DPI.
C17_DisplayedIsCurrent ==
    \A s \in Sessions :
        Displays(s) =>
            /\ Loaded(s)
            /\ LET doc == uploaded_file[s].bytes
                   stem == uploaded_file[s].name.stem
                   d == IF locals[s].page_count > 50 /\ dpi[s] > 150
                        THEN 150 ELSE dpi[s]
               IN  /\ Len(ui[s].cells) = doc.pages
                   /\ \A k \in 1..doc.pages :
                         /\ ui[s].cells[k].image = PagePng(doc, k, d)
                         /\ ui[s].cells[k].data = PagePng(doc, k, d)
                         /\ ui[s].cells[k].caption = k
                         /\ ui[s].cells[k].file_name.stem = stem
                         /\ ui[s].cells[k].file_name.number =
                                <<k \div 100, (k \div 10) % 10, k % 10>>
                   /\ \A b \in ui[s].zip_button :
                         /\ b.file_name.stem = stem
                         /\ Len(b.data.content) = doc.pages
                         /\ \A k \in 1..doc.pages :
                               b.data.content[k] =
                                   [name |-> PageEntryName(k),
                                    data |-> PagePng(doc, k, d)]
                   /\ ui[s].zip_button # {}
                   /\ \A g \in ui[s].dialog :
                         /\ g.page_num \in 1..doc.pages
                         /\ g.image_bytes = PagePng(doc, g.page_num, d)
                   /\ \A f \in download[s] :
                         /\ f.file_name.stem = stem
                         /\ IF f.file_name.suffix = "_all_pages.zip"
                            THEN f \in ui[s].zip_button
                            ELSE \E k \in 1..doc.pages :
                                    /\ f.file_name = ui[s].cells[k].file_name
                                    /\ f.data = PagePng(doc, k, d)

\* the second document uploaded, shown at a DPI selected after its upload
C17_Witness ==
    /\ event.kind = "dpi"
    /\ Loaded(event.session)
    /\ uploaded_file[event.session].file_id = 2
    /\ called # {}
    /\ Ready(event.session)
    /\ dpi[event.session] = locals[event.session].dpi_safe

\* C20: after every run of the script the five keys image_bytes_list,
\* zip_data, last_file_id, last_dpi and pdf_filename are all in the session
\* state, image_bytes_list a list and the others the values of the same
\* successful render, or none of them is; a failure result (image_bytes_list
\* None) is in no state between runs.
C20_KeysAllOrNone ==
    \A s \in Sessions :
        \/ DOMAIN session_state[s] = {}
        \/ /\ DOMAIN session_state[s] =
                  {"image_bytes_list", "zip_data", "last_file_id", "last_dpi",
                   "pdf_filename"}
           /\ session_state[s]["image_bytes_list"].kind = "list"
           /\ session_state[s]["image_bytes_list"] # None
           /\ session_state[s]["zip_data"].kind = "bytes"
           /\ Loaded(s)
           /\ session_state[s]["last_file_id"] = uploaded_file[s].file_id
           /\ session_state[s]["last_dpi"] = locals[s].dpi_safe
           /\ session_state[s]["pdf_filename"] = uploaded_file[s].name.stem

\* a document shown at 300 DPI failed at 600: all five keys are gone
C20_Witness ==
    /\ event.kind = "dpi"
    /\ Loaded(event.session)
    /\ dpi[event.session] = 600
    /\ session_state[event.session] = EmptyState
    /\ ui[event.session].error # {}
    /\ \E c \in called : c.executed /\ c.outcome.value[1] = None /\ c.dpi = 600

====
